---------------------------- MODULE Spec2Model ----------------------------
(***************************************************************************)
(* A model of the user repositories of app/repository.py: the in-memory    *)
(* variant (a dict, a next-id counter and an asyncio.Lock) and the SQLite  *)
(* variant (a lazily created schema behind a plain boolean flag, and one   *)
(* session per operation), driven by concurrent tasks.                     *)
(*                                                                         *)
(* A task runs one operation at a time.  Every statement of create_user    *)
(* and every database round trip is one step, and any task may run between *)
(* two steps: this covers the event loop's schedules (which switch tasks   *)
(* at awaits only) and more, so what holds here holds of the event loop.   *)
(* The in-memory reads have no await and are one step each.                *)
(*                                                                         *)
(* All instances of a run are of one variant (kind).  The two in-memory    *)
(* instances live side by side.  A process holds one SQLite instance: r1,  *)
(* and after a restart r2, constructed on the same database file (the      *)
(* default location "users.db").  The database is SQLite as SQLAlchemy     *)
(* drives it: create_all checks for the table and then creates it, rowids  *)
(* count up from the largest, one writer at a time, readers see committed  *)
(* rows.                                                                   *)
(*                                                                         *)
(* A run starts with create_user_repository of app/factory.py choosing the *)
(* variant from its argument or the environment.  FaultSpec adds storage   *)
(* failures to the SQLite operations.  StoreSpec is the FileStore of       *)
(* script.py, a program of its own: a dict mirrored in a JSON file.        *)
(***************************************************************************)
EXTENDS Integers, Sequences, FiniteSets, TLC

\* ------------------------------------------------------------------ bounds

\* The most users created in one run (in-flight creations included).
MaxUsers == 3
\* The last tick of the wall clock that datetime.now() reads.
MaxClock == 1
\* The most storage failures in one run.
MaxFaults == 1

\* ------------------------------------------------------------ small worlds

Kinds == {"memory", "sqlite"}
Repos == {"r1", "r2"}
Tasks == {"t1", "t2"}
Ops == {"create_user", "get_user", "list_users"}
\* Well-formed (username, email) inputs; a username may be given again.
Inputs == {<<"alice", "alice@x.com">>, <<"bob", "bob@x.com">>}
\* The ids get_user is asked for: every id a run can assign, and one more.
UserIds == 1..(MaxUsers + 1)

\* ------------------------------------------------------------------- values

\* app/models.py User.
User(id, username, email, created_at) ==
    [id |-> id, username |-> username, email |-> email, created_at |-> created_at]

\* Python's None where a User is expected (no User has id 0).
None == [id |-> 0, username |-> "", email |-> "", created_at |-> 0]

\* A row of the users table, in column order (id, username, email, created_at).
NoRow == <<0, "", "", 0>>

\* User.model_validate(db_user) with from_attributes: reads the four attributes
\* of the row by name.
model_validate(row) ==
    [id |-> row[1], username |-> row[2], email |-> row[3], created_at |-> row[4]]

\* ------------------------------------------------------------ Python's dict

\* A dict is the sequence of its entries in insertion order.
DictHas(d, k) == \E i \in DOMAIN d : d[i].k = k

\* d.get(k): the value under k, or None.
DictGet(d, k) ==
    IF DictHas(d, k) THEN d[CHOOSE i \in DOMAIN d : d[i].k = k].v ELSE None

\* d[k] = v: a known key keeps its place, a new key goes last.
DictSet(d, k, v) ==
    IF DictHas(d, k)
    THEN [i \in DOMAIN d |-> IF d[i].k = k THEN [k |-> k, v |-> v] ELSE d[i]]
    ELSE Append(d, [k |-> k, v |-> v])

\* list(d.values()): the values in insertion order.
DictValues(d) == [i \in DOMAIN d |-> d[i].v]

\* ------------------------------------------------------------ Python's str

\* A str is the sequence of its characters.
UpperCase == <<"A", "B", "C", "D", "E", "F", "G", "H", "I", "J", "K", "L", "M",
               "N", "O", "P", "Q", "R", "S", "T", "U", "V", "W", "X", "Y", "Z">>
LowerCase == <<"a", "b", "c", "d", "e", "f", "g", "h", "i", "j", "k", "l", "m",
               "n", "o", "p", "q", "r", "s", "t", "u", "v", "w", "x", "y", "z">>

\* str.lower(): every upper-case letter becomes its lower-case letter, every
\* other character stays.
lower(s) ==
    [i \in DOMAIN s |->
        IF \E j \in DOMAIN UpperCase : UpperCase[j] = s[i]
        THEN LowerCase[CHOOSE j \in DOMAIN UpperCase : UpperCase[j] = s[i]]
        ELSE s[i]]

\* ------------------------------------------------------------- app/factory.py

\* The two names the factory knows.
memory == <<"m", "e", "m", "o", "r", "y">>
sqlite == <<"s", "q", "l", "i", "t", "e">>

\* No argument (Python's None), and no REPO_TYPE in the environment.
NoneArg == <<"None">>
Unset == <<"unset">>

\* The names a caller or the environment gives: the known names in several
\* casings, an unknown name in two casings, a padded name and the empty name.
RepoTypes ==
    {memory,
     <<"M", "E", "M", "O", "R", "Y">>,
     <<"M", "e", "m", "o", "r", "y">>,
     sqlite,
     <<"S", "Q", "L", "i", "t", "e">>,
     <<"S", "Q", "L", "I", "T", "E">>,
     <<"p", "o", "s", "t", "g", "r", "e", "s">>,
     <<"P", "o", "s", "t", "g", "r", "e", "s">>,
     <<"m", "e", "m", "o", "r", "y", " ">>,
     <<>>}

\* os.getenv("REPO_TYPE", "memory").
getenv(environ) == IF environ = Unset THEN memory ELSE environ

NoError == [value |-> <<>>, accepted |-> {}]

\* ValueError(f"Unknown repository type: {repo_type}. Use 'memory' or 'sqlite'"):
\* the value the message shows and the names it lists.
ValueError(shown) == [value |-> shown, accepted |-> {memory, sqlite}]

\* create_user_repository(repo_type): the variant of the repository it
\* constructs ("none" when it raises) and the error it raises.
create_user_repository(arg, environ) ==
    LET given == IF arg = NoneArg THEN getenv(environ) ELSE arg
        name == lower(given)
    IN  IF name = memory THEN [kind |-> "memory", error |-> NoError]
        ELSE IF name = sqlite THEN [kind |-> "sqlite", error |-> NoError]
        ELSE [kind |-> "none", error |-> ValueError(name)]

\* ------------------------------------------------------- script.py FileStore

\* The keys and values the store is given; two of each need escaping in JSON.
Keys == {<<"k">>, <<"\"">>, <<"\\">>}
Values == {<<"v">>, <<"\\", "\"">>}

\* d.get(k) on a dict of strs: the value, or Python's None.
StrGet(d, k) == IF DictHas(d, k) THEN DictGet(d, k) ELSE NoneArg

\* del d[k]: the other entries keep their order.
DictDel(d, k) == SelectSeq(d, LAMBDA e : e.k # k)

\* JSON text is the sequence of its tokens (white space left out): braces,
\* colons, commas and string literals, a literal holding its escaped body.
Token(t, body) == [t |-> t, s |-> body]
StrToken(body) == Token("str", body)

\* json's string encoder with ensure_ascii=False: a quote and a backslash get
\* a backslash in front.
RECURSIVE encode_basestring(_)
encode_basestring(s) ==
    IF s = <<>> THEN <<>>
    ELSE (IF Head(s) \in {"\"", "\\"} THEN <<"\\", Head(s)>> ELSE <<Head(s)>>)
         \o encode_basestring(Tail(s))

\* json's string scanner: the character after a backslash stands for itself.
RECURSIVE scanstring(_)
scanstring(e) ==
    IF e = <<>> THEN <<>>
    ELSE IF Head(e) = "\\" /\ Len(e) >= 2
         THEN <<e[2]>> \o scanstring(Tail(Tail(e)))
         ELSE <<Head(e)>> \o scanstring(Tail(e))

\* The members of a JSON object, in the dict's order, commas between them.
RECURSIVE Members(_)
Members(d) ==
    IF d = <<>> THEN <<>>
    ELSE <<StrToken(encode_basestring(d[1].k)), Token(":", <<>>),
           StrToken(encode_basestring(d[1].v))>>
         \o (IF Tail(d) = <<>> THEN <<>>
             ELSE <<Token(",", <<>>)>> \o Members(Tail(d)))

\* json.dump(self._data, f, indent=2, ensure_ascii=False).
json_dump(d) == <<Token("{", <<>>)>> \o Members(d) \o <<Token("}", <<>>)>>

\* The members parsed into a dict, one after the other: a key met again
\* takes the later value.
RECURSIVE ParseMembers(_, _)
ParseMembers(toks, d) ==
    IF Len(toks) < 3 THEN d
    ELSE ParseMembers(SubSeq(toks, 5, Len(toks)),
                      DictSet(d, scanstring(toks[1].s), scanstring(toks[3].s)))

\* json.load(f).
json_load(text) == ParseMembers(SubSeq(text, 2, Len(text) - 1), <<>>)

\* The file does not exist.
NoFile == <<Token("absent", <<>>)>>

\* FileStore._load: the file's mapping if the file exists; else _data stays {}.
load(f) == IF f = NoFile THEN <<>> ELSE json_load(f)

NoOut == [op |-> "none", key |-> <<>>, flag |-> FALSE, val |-> NoneArg, all |-> <<>>]

\* ------------------------------------------------------------------- state

VARIABLES
    kind,         \* the variant of the run's repositories
    live,         \* the SQLite instance of the running process
    clock,        \* what datetime.now() returns
    users,        \* users[r]: InMemoryUserRepository._users
    next_id,      \* next_id[r]: InMemoryUserRepository._next_id
    lock,         \* lock[r]: whether InMemoryUserRepository._lock is held
    initialized,  \* initialized[r]: SQLiteUserRepository._initialized
    table,        \* whether the users table exists in the database file
    rows,         \* the committed rows of the users table
    writer,       \* the task holding the database's write lock, or "none"
    sessions,     \* the tasks whose operation holds an open session
    faults,       \* the storage failures of the run so far
    pc,           \* pc[t]: where task t is in its operation
    call,         \* call[t]: the operation, its instance and its arguments
    local,        \* local[t]: the operation's local variables
    res,          \* res[t]: what the operation returned or raised
    returned,     \* history: returned[r], the Users create_user returned, in order
    initRuns,     \* history: initRuns[r], schema creations begun (0, 1, 2 = more)
    repo_type,    \* the argument of create_user_repository (not kept after the call)
    env,          \* the environment's REPO_TYPE (not kept after the call)
    error,        \* the ValueError create_user_repository raised, or NoError
    file,         \* script.py: the text of the FileStore's JSON file, or NoFile
    data,         \* script.py: FileStore._data of the live instance
    out           \* script.py: the last FileStore call and what it returned

vars == <<kind, live, clock, users, next_id, lock, initialized, table, rows, writer,
          sessions, faults, pc, call, local, res, returned, initRuns, repo_type, env, error,
          file, data, out>>

facVars == <<repo_type, env, error>>
fsVars == <<file, data, out>>

memVars == <<users, next_id, lock>>
sqlVars == <<initialized, table, rows, writer, sessions, initRuns>>

NoCall == [op |-> "none", repo |-> "none", username |-> "", email |-> "",
           user_id |-> 0, pre |-> {}]
NoLocal == [user |-> None, seen |-> FALSE, row |-> NoRow, found |-> <<>>,
            ran_init |-> FALSE]
NoRes == [err |-> "none", at |-> "none", val |-> None, vals |-> <<>>]

\* The operation raises err at step p.
Raised(r, err, p) == [r EXCEPT !.err = err, !.at = p]

\* The locals of an operation that has returned are gone; what stays is the
\* note that it ran schema creation.
Gone(l) == [NoLocal EXCEPT !.ran_init = l.ran_init]

Active(t) == pc[t] \notin {"idle", "done"}

\* The ids create_user has returned so far on the store behind instance r: the
\* instance's own mapping, or the database all SQLite instances share.
ReturnedIds(r) ==
    IF kind = "memory"
    THEN {returned[r][i].id : i \in DOMAIN returned[r]}
    ELSE UNION {{returned[q][i].id : i \in DOMAIN returned[q]} : q \in Repos}

\* The creations in flight.
Creating == {t \in Tasks : Active(t) /\ call[t].op = "create_user"}

\* The records stored in the run.
Stored ==
    IF kind = "memory"
    THEN Len(users["r1"]) + Len(users["r2"])
    ELSE Cardinality(rows)

\* InMemoryUserRepository.__init__ and SQLiteUserRepository.__init__, for every
\* instance of the run; the database file may not exist yet.
Init ==
    /\ kind = "none"
    /\ repo_type \in RepoTypes \cup {NoneArg}
    /\ env \in RepoTypes \cup {Unset}
    /\ error = NoError
    /\ file = NoFile
    /\ data = <<>>
    /\ out = NoOut
    /\ live = "r1"
    /\ clock = 0
    /\ users = [r \in Repos |-> <<>>]
    /\ next_id = [r \in Repos |-> 1]
    /\ lock = [r \in Repos |-> FALSE]
    /\ initialized = [r \in Repos |-> FALSE]
    /\ table = FALSE
    /\ rows = {}
    /\ writer = "none"
    /\ sessions = {}
    /\ faults = 0
    /\ pc = [t \in Tasks |-> "idle"]
    /\ call = [t \in Tasks |-> NoCall]
    /\ local = [t \in Tasks |-> NoLocal]
    /\ res = [t \in Tasks |-> NoRes]
    /\ returned = [r \in Repos |-> <<>>]
    /\ initRuns = [r \in Repos |-> 0]

\* The process starts: create_user_repository is called once (app/main.py calls
\* it without an argument) and the run's repositories are of the variant it
\* gives.  When it raises no repository exists and nothing more happens.
Startup ==
    /\ kind = "none"
    /\ error = NoError
    /\ kind' = create_user_repository(repo_type, env).kind
    /\ error' = create_user_repository(repo_type, env).error
    /\ repo_type' = NoneArg
    /\ env' = Unset
    /\ UNCHANGED <<live, clock, memVars, sqlVars, pc, call, local, res, returned,
                   faults, fsVars>>

\* datetime.now(): the clock as it stands, or a tick later.
Now == {c \in {clock, clock + 1} : c <= MaxClock}

\* A task is at step p of its operation.  A result that has been returned is
\* taken before anything else runs: Return touches nothing that another task
\* reads, so no behaviour is lost.
At(t, p) == pc[t] = p /\ \A o \in Tasks : pc[o] # "done"

\* The instances a caller can reach: every in-memory instance, or the SQLite
\* instance of the running process.
Callable == IF kind = "memory" THEN Repos ELSE {live}

\* The first step of an operation for the variant.
Entry(op) ==
    IF kind = "memory" THEN "m_lock"
    ELSE "s_init"

\* The arguments of a call of op on instance r.  pre is history: the ids that
\* create_user had returned on r's store when a read was called.
Args(op, r, in, id) ==
    [op |-> op, repo |-> r,
     username |-> IF op = "create_user" THEN in[1] ELSE "",
     email |-> IF op = "create_user" THEN in[2] ELSE "",
     user_id |-> IF op = "get_user" THEN id ELSE 0,
     pre |-> IF op = "create_user" THEN {} ELSE ReturnedIds(r)]

\* A caller (a request handler of app/main.py) starts an operation on an
\* instance.  The in-memory reads have no await: they are one step, below.
Call(t) ==
    /\ At(t, "idle")
    /\ kind \in Kinds
    /\ \E r \in Callable, op \in Ops, in \in Inputs, id \in UserIds :
        /\ kind = "memory" => op = "create_user"
        /\ op = "create_user" => Stored + Cardinality(Creating) < MaxUsers
        /\ call' = [call EXCEPT ![t] = Args(op, r, in, id)]
        /\ pc' = [pc EXCEPT ![t] = Entry(op)]
    /\ UNCHANGED <<kind, faults, facVars, fsVars, live, clock, memVars, sqlVars, local, res, returned>>

\* The caller takes the result; the task is free for the next operation.
Return(t) ==
    /\ pc[t] = "done"
    /\ pc' = [pc EXCEPT ![t] = "idle"]
    /\ call' = [call EXCEPT ![t] = NoCall]
    /\ local' = [local EXCEPT ![t] = NoLocal]
    /\ res' = [res EXCEPT ![t] = NoRes]
    /\ UNCHANGED <<kind, faults, facVars, fsVars, live, clock, memVars, sqlVars, returned>>

\* The process ends and a new one starts: SQLiteUserRepository.__init__ on the
\* same location makes a new instance (flag unset); the database file stays.
Restart ==
    /\ kind = "sqlite"
    /\ live = "r1"
    /\ \A t \in Tasks : pc[t] = "idle"
    /\ live' = "r2"
    /\ UNCHANGED <<kind, faults, facVars, fsVars, clock, memVars, sqlVars, pc, call, local, res, returned>>

\* ------------------------------------------------ InMemoryUserRepository

\* MemAcquire with the lock forgotten: the task enters whether it is held or not.
MemAcquire_NoLock(t) ==
    /\ At(t, "m_lock")
    /\ lock' = [lock EXCEPT ![call[t].repo] = TRUE]
    /\ pc' = [pc EXCEPT ![t] = "m_user"]
    /\ UNCHANGED <<kind, faults, facVars, fsVars, live, clock, users, next_id, sqlVars, call, local, res,
                   returned>>

\* create_user: async with self._lock (a held lock makes the task wait).
MemAcquire(t) ==
    /\ At(t, "m_lock")
    /\ lock[call[t].repo] = FALSE
    /\ lock' = [lock EXCEPT ![call[t].repo] = TRUE]
    /\ pc' = [pc EXCEPT ![t] = "m_user"]
    /\ UNCHANGED <<kind, faults, facVars, fsVars, live, clock, users, next_id, sqlVars, call, local, res,
                   returned>>

\* MemConstruct with the slot taken first: an empty record goes into the
\* mapping under the new id, and its fields follow in the next statement.
MemConstruct_Reserve(t) ==
    /\ At(t, "m_user")
    /\ \E now \in Now :
        /\ clock' = now
        /\ local' = [local EXCEPT ![t].user =
              User(next_id[call[t].repo], call[t].username, call[t].email, now)]
    /\ users' = [users EXCEPT ![call[t].repo] =
          DictSet(@, next_id[call[t].repo], User(next_id[call[t].repo], "", "", 0))]
    /\ pc' = [pc EXCEPT ![t] = "m_store"]
    /\ UNCHANGED <<kind, faults, facVars, fsVars, live, next_id, lock, sqlVars, call, res,
                   returned>>

\* create_user: user = User(id=self._next_id, ..., created_at=datetime.now()).
MemConstruct(t) ==
    /\ At(t, "m_user")
    /\ \E now \in Now :
        /\ clock' = now
        /\ local' = [local EXCEPT ![t].user =
              User(next_id[call[t].repo], call[t].username, call[t].email, now)]
    /\ pc' = [pc EXCEPT ![t] = "m_store"]
    /\ UNCHANGED <<kind, faults, facVars, fsVars, live, memVars, sqlVars, call, res, returned>>

\* MemStore with _users a class attribute: one dict for every instance.
MemStore_Shared(t) ==
    /\ At(t, "m_store")
    /\ users' = [r \in Repos |-> DictSet(users[r], local[t].user.id, local[t].user)]
    /\ pc' = [pc EXCEPT ![t] = "m_incr"]
    /\ UNCHANGED <<kind, faults, facVars, fsVars, live, clock, next_id, lock, sqlVars, call, local, res,
                   returned>>

\* create_user: self._users[user.id] = user.
MemStore(t) ==
    /\ At(t, "m_store")
    /\ users' = [users EXCEPT ![call[t].repo] =
          DictSet(@, local[t].user.id, local[t].user)]
    /\ pc' = [pc EXCEPT ![t] = "m_incr"]
    /\ UNCHANGED <<kind, faults, facVars, fsVars, live, clock, next_id, lock, sqlVars, call, local, res,
                   returned>>

\* MemIncr with the increment forgotten.
MemIncr_Skip(t) ==
    /\ At(t, "m_incr")
    /\ pc' = [pc EXCEPT ![t] = "m_return"]
    /\ UNCHANGED <<kind, faults, facVars, fsVars, live, clock, users, next_id, lock, sqlVars, call, local,
                   res, returned>>

\* MemIncr counting the records anew: self._next_id = len(self._users).
MemIncr_Len(t) ==
    /\ At(t, "m_incr")
    /\ next_id' = [next_id EXCEPT ![call[t].repo] = Len(users[call[t].repo])]
    /\ pc' = [pc EXCEPT ![t] = "m_return"]
    /\ UNCHANGED <<kind, faults, facVars, fsVars, live, clock, users, lock, sqlVars, call, local, res,
                   returned>>

\* create_user: self._next_id += 1.
MemIncr(t) ==
    /\ At(t, "m_incr")
    /\ next_id' = [next_id EXCEPT ![call[t].repo] = @ + 1]
    /\ pc' = [pc EXCEPT ![t] = "m_return"]
    /\ UNCHANGED <<kind, faults, facVars, fsVars, live, clock, users, lock, sqlVars, call, local, res,
                   returned>>

\* create_user: return user, leaving the async with (the lock is released).
MemReturn(t) ==
    /\ At(t, "m_return")
    /\ lock' = [lock EXCEPT ![call[t].repo] = FALSE]
    /\ res' = [res EXCEPT ![t].val = local[t].user]
    /\ returned' = [returned EXCEPT ![call[t].repo] = Append(@, local[t].user)]
    /\ pc' = [pc EXCEPT ![t] = "done"]
    /\ local' = [local EXCEPT ![t] = Gone(@)]
    /\ UNCHANGED <<kind, faults, facVars, fsVars, live, clock, users, next_id, sqlVars, call>>

\* MemGet reading _users as a list: position user_id, counted from 0.
MemGet_ByPosition(t) ==
    /\ At(t, "idle")
    /\ kind = "memory"
    /\ \E r \in Repos, id \in UserIds :
        /\ call' = [call EXCEPT ![t] = Args("get_user", r, <<"", "">>, id)]
        /\ res' = [res EXCEPT ![t].val =
              IF id + 1 \in DOMAIN users[r] THEN users[r][id + 1].v ELSE None]
    /\ pc' = [pc EXCEPT ![t] = "done"]
    /\ UNCHANGED <<kind, faults, facVars, fsVars, live, clock, memVars, sqlVars, local, returned>>

\* MemGet with pop in place of get: the record read leaves the mapping.
MemGet_Pop(t) ==
    /\ At(t, "idle")
    /\ kind = "memory"
    /\ \E r \in Repos, id \in UserIds :
        /\ call' = [call EXCEPT ![t] = Args("get_user", r, <<"", "">>, id)]
        /\ res' = [res EXCEPT ![t].val = DictGet(users[r], id)]
        /\ users' = [users EXCEPT ![r] = SelectSeq(@, LAMBDA e : e.k # id)]
    /\ pc' = [pc EXCEPT ![t] = "done"]
    /\ UNCHANGED <<kind, faults, facVars, fsVars, live, clock, next_id, lock, sqlVars, local,
                   returned>>

\* get_user, called and run: self._users.get(user_id), returned as it is.
MemGet(t) ==
    /\ At(t, "idle")
    /\ kind = "memory"
    /\ \E r \in Repos, id \in UserIds :
        /\ call' = [call EXCEPT ![t] = Args("get_user", r, <<"", "">>, id)]
        /\ res' = [res EXCEPT ![t].val = DictGet(users[r], id)]
    /\ pc' = [pc EXCEPT ![t] = "done"]
    /\ UNCHANGED <<kind, faults, facVars, fsVars, live, clock, memVars, sqlVars, local, returned>>

\* list_users, called and run: list(self._users.values()).
MemList(t) ==
    /\ At(t, "idle")
    /\ kind = "memory"
    /\ \E r \in Repos :
        /\ call' = [call EXCEPT ![t] = Args("list_users", r, <<"", "">>, 0)]
        /\ res' = [res EXCEPT ![t].vals = DictValues(users[r])]
    /\ pc' = [pc EXCEPT ![t] = "done"]
    /\ UNCHANGED <<kind, faults, facVars, fsVars, live, clock, memVars, sqlVars, local, returned>>

\* -------------------------------------------------------- the users table

Max(S) == CHOOSE x \in S : \A y \in S : y <= x

\* The primary key SQLite assigns to a new row: one more than the largest.
NextRowId(rs) == IF rs = {} THEN 1 ELSE Max({row[1] : row \in rs}) + 1

\* OrderById descending (ORDER BY id DESC).
RECURSIVE OrderById_Desc(_)
OrderById_Desc(rs) ==
    IF rs = {} THEN <<>>
    ELSE LET first == CHOOSE row \in rs : \A o \in rs : row[1] >= o[1]
         IN <<first>> \o OrderById_Desc(rs \ {first})

\* ORDER BY id: the rows as a sequence, ascending by primary key.
RECURSIVE OrderById(_)
OrderById(rs) ==
    IF rs = {} THEN <<>>
    ELSE LET first == CHOOSE row \in rs : \A o \in rs : row[1] <= o[1]
         IN <<first>> \o OrderById(rs \ {first})

\* WHERE id = k: the row with that primary key, or no row.
RowById(rs, k) ==
    IF \E row \in rs : row[1] = k THEN CHOOSE row \in rs : row[1] = k ELSE NoRow

\* UsernameTaken for a username column without unique=True.
UsernameTaken_Never(rs, username) == FALSE

\* The unique constraint on users.username.
UsernameTaken(rs, username) == \E row \in rs : row[2] = username

\* --------------------------------------------------- SQLiteUserRepository

\* Where an operation goes once _init_db has returned.
Body(op) ==
    CASE op = "create_user" -> "s_insert"
      [] op = "get_user" -> "s_select"
      [] OTHER -> "s_select_all"

\* SqlInitCheck with the flag set before schema creation has run.
SqlInitCheck_FlagFirst(t) ==
    /\ At(t, "s_init")
    /\ IF initialized[call[t].repo]
       THEN /\ pc' = [pc EXCEPT ![t] = Body(call[t].op)]
            /\ UNCHANGED initialized
            /\ sessions' = sessions \cup {t}
            /\ UNCHANGED <<initRuns, local>>
       ELSE /\ pc' = [pc EXCEPT ![t] = "s_has_table"]
            /\ initialized' = [initialized EXCEPT ![call[t].repo] = TRUE]
            /\ initRuns' = [initRuns EXCEPT ![call[t].repo] = IF @ < 2 THEN @ + 1 ELSE @]
            /\ local' = [local EXCEPT ![t].ran_init = TRUE]
            /\ UNCHANGED sessions
    /\ UNCHANGED <<kind, faults, facVars, fsVars, live, clock, memVars, table, rows, writer, call,
                   res, returned>>

\* _init_db: the flag check; an unset flag opens a connection for create_all.
SqlInitCheck(t) ==
    /\ At(t, "s_init")
    /\ IF initialized[call[t].repo]
       THEN /\ pc' = [pc EXCEPT ![t] = Body(call[t].op)]
            /\ sessions' = sessions \cup {t}
            /\ UNCHANGED <<initRuns, local>>
       ELSE /\ pc' = [pc EXCEPT ![t] = "s_has_table"]
            /\ initRuns' = [initRuns EXCEPT ![call[t].repo] = IF @ < 2 THEN @ + 1 ELSE @]
            /\ local' = [local EXCEPT ![t].ran_init = TRUE]
            /\ UNCHANGED sessions
    /\ UNCHANGED <<kind, faults, facVars, fsVars, live, clock, memVars, initialized, table, rows, writer, call,
                   res, returned>>

\* SqlCreateAll as drop_all followed by create_all: an existing table is
\* dropped with its rows and made again.
SqlCreateAll_Recreate(t) ==
    /\ At(t, "s_ddl")
    /\ table' = TRUE
    /\ rows' = {}
    /\ pc' = [pc EXCEPT ![t] = "s_flag"]
    /\ UNCHANGED <<kind, faults, facVars, fsVars, live, clock, memVars, initialized, writer, sessions,
                   initRuns, call, local, res, returned>>

\* SqlSetFlag with the assignment forgotten.
SqlSetFlag_Forgotten(t) ==
    /\ At(t, "s_flag")
    /\ pc' = [pc EXCEPT ![t] = Body(call[t].op)]
    /\ sessions' = sessions \cup {t}
    /\ UNCHANGED <<kind, faults, facVars, fsVars, live, clock, memVars, initialized, table, rows, writer,
                   initRuns, call, local, res, returned>>

\* create_all (checkfirst): asks the database whether the table exists.
SqlHasTable(t) ==
    /\ At(t, "s_has_table")
    /\ local' = [local EXCEPT ![t].seen = table]
    /\ pc' = [pc EXCEPT ![t] = "s_ddl"]
    /\ UNCHANGED <<kind, faults, facVars, fsVars, live, clock, memVars, sqlVars, call, res, returned>>

\* create_all: CREATE TABLE users unless the check saw the table; the database
\* refuses it ("table users already exists") when the table has appeared since,
\* and the error leaves _init_db before the flag is set.
SqlCreateAll(t) ==
    /\ At(t, "s_ddl")
    /\ IF local[t].seen
       THEN /\ pc' = [pc EXCEPT ![t] = "s_flag"]
            /\ UNCHANGED <<table, res>>
       ELSE IF table
       THEN /\ res' = [res EXCEPT ![t] = Raised(@, "OperationalError", "s_ddl")]
            /\ pc' = [pc EXCEPT ![t] = "done"]
            /\ UNCHANGED table
       ELSE /\ table' = TRUE
            /\ pc' = [pc EXCEPT ![t] = "s_flag"]
            /\ UNCHANGED res
    /\ UNCHANGED <<kind, faults, facVars, fsVars, live, clock, memVars, initialized, rows, writer, sessions,
                   initRuns, call, local, returned>>

\* _init_db: the connection block ends; self._initialized = True.
SqlSetFlag(t) ==
    /\ At(t, "s_flag")
    /\ initialized' = [initialized EXCEPT ![call[t].repo] = TRUE]
    /\ pc' = [pc EXCEPT ![t] = Body(call[t].op)]
    /\ sessions' = sessions \cup {t}
    /\ UNCHANGED <<kind, faults, facVars, fsVars, live, clock, memVars, table, rows, writer, initRuns, call,
                   local, res, returned>>

\* create_user: session.add(db_user) and the INSERT that commit() flushes.  The
\* database takes the write lock (another writer makes the task wait), assigns
\* the primary key and the created_at default, and refuses a taken username;
\* an error closes the session and reaches the caller.
SqlInsert(t) ==
    /\ At(t, "s_insert")
    /\ writer = "none"
    /\ IF ~table
       THEN /\ res' = [res EXCEPT ![t] = Raised(@, "OperationalError", "s_insert")]
            /\ pc' = [pc EXCEPT ![t] = "done"]
            /\ sessions' = sessions \ {t}
            /\ UNCHANGED <<clock, local, writer>>
       ELSE IF UsernameTaken(rows, call[t].username)
       THEN /\ res' = [res EXCEPT ![t] = Raised(@, "IntegrityError", "s_insert")]
            /\ pc' = [pc EXCEPT ![t] = "done"]
            /\ sessions' = sessions \ {t}
            /\ UNCHANGED <<clock, local, writer>>
       ELSE /\ \E now \in Now :
                /\ clock' = now
                /\ local' = [local EXCEPT ![t].row =
                      <<NextRowId(rows), call[t].username, call[t].email, now>>]
            /\ writer' = t
            /\ pc' = [pc EXCEPT ![t] = "s_commit"]
            /\ UNCHANGED <<res, sessions>>
    /\ UNCHANGED <<kind, faults, facVars, fsVars, live, memVars, initialized, table, rows, initRuns,
                   call, returned>>

\* create_user: commit() makes the row visible and frees the write lock.
SqlCommit(t) ==
    /\ At(t, "s_commit")
    /\ rows' = rows \cup {local[t].row}
    /\ writer' = "none"
    /\ pc' = [pc EXCEPT ![t] = "s_refresh"]
    /\ UNCHANGED <<kind, faults, facVars, fsVars, live, clock, memVars, initialized, table, sessions,
                   initRuns, call, local, res, returned>>

\* create_user: session.refresh(db_user) reads the row back by primary key.
SqlRefresh(t) ==
    /\ At(t, "s_refresh")
    /\ local' = [local EXCEPT ![t].row = RowById(rows, local[t].row[1])]
    /\ pc' = [pc EXCEPT ![t] = "s_created"]
    /\ UNCHANGED <<kind, faults, facVars, fsVars, live, clock, memVars, sqlVars, call, res, returned>>

\* create_user: User.model_validate(db_user), the session closes, return user.
SqlCreated(t) ==
    /\ At(t, "s_created")
    /\ res' = [res EXCEPT ![t].val = model_validate(local[t].row)]
    /\ returned' = [returned EXCEPT ![call[t].repo] =
          Append(@, model_validate(local[t].row))]
    /\ pc' = [pc EXCEPT ![t] = "done"]
    /\ local' = [local EXCEPT ![t] = Gone(@)]
    /\ sessions' = sessions \ {t}
    /\ UNCHANGED <<kind, faults, facVars, fsVars, live, clock, memVars, initialized, table, rows, writer,
                   initRuns, call>>

\* get_user: select(UserModel).where(UserModel.id == user_id), scalar_one_or_none.
SqlSelect(t) ==
    /\ At(t, "s_select")
    /\ IF ~table
       THEN /\ res' = [res EXCEPT ![t] = Raised(@, "OperationalError", "s_select")]
            /\ pc' = [pc EXCEPT ![t] = "done"]
            /\ sessions' = sessions \ {t}
            /\ UNCHANGED local
       ELSE /\ local' = [local EXCEPT ![t].row = RowById(rows, call[t].user_id)]
            /\ pc' = [pc EXCEPT ![t] = "s_got"]
            /\ UNCHANGED <<res, sessions>>
    /\ UNCHANGED <<kind, faults, facVars, fsVars, live, clock, memVars, initialized, table, rows, writer,
                   initRuns, call, returned>>

\* get_user: the row mapped to a User and returned, or None; the session closes.
SqlGot(t) ==
    /\ At(t, "s_got")
    /\ res' = [res EXCEPT ![t].val =
          IF local[t].row # NoRow THEN model_validate(local[t].row) ELSE None]
    /\ pc' = [pc EXCEPT ![t] = "done"]
    /\ local' = [local EXCEPT ![t] = Gone(@)]
    /\ sessions' = sessions \ {t}
    /\ UNCHANGED <<kind, faults, facVars, fsVars, live, clock, memVars, initialized, table, rows, writer,
                   initRuns, call, returned>>

\* list_users: select(UserModel).order_by(UserModel.id), scalars().all().
SqlSelectAll(t) ==
    /\ At(t, "s_select_all")
    /\ IF ~table
       THEN /\ res' = [res EXCEPT ![t] = Raised(@, "OperationalError", "s_select_all")]
            /\ pc' = [pc EXCEPT ![t] = "done"]
            /\ sessions' = sessions \ {t}
            /\ UNCHANGED local
       ELSE /\ local' = [local EXCEPT ![t].found = OrderById(rows)]
            /\ pc' = [pc EXCEPT ![t] = "s_listed"]
            /\ UNCHANGED <<res, sessions>>
    /\ UNCHANGED <<kind, faults, facVars, fsVars, live, clock, memVars, initialized, table, rows, writer,
                   initRuns, call, returned>>

\* list_users: every row mapped to a User; the session closes; return users.
SqlListed(t) ==
    /\ At(t, "s_listed")
    /\ res' = [res EXCEPT ![t].vals =
          [i \in DOMAIN local[t].found |-> model_validate(local[t].found[i])]]
    /\ pc' = [pc EXCEPT ![t] = "done"]
    /\ local' = [local EXCEPT ![t] = Gone(@)]
    /\ sessions' = sessions \ {t}
    /\ UNCHANGED <<kind, faults, facVars, fsVars, live, clock, memVars, initialized, table, rows, writer,
                   initRuns, call, returned>>

\* ------------------------------------------------------- storage failures

\* The steps at which the database or the row mapping can fail: the round
\* trips of schema creation and of the three operations, and model_validate.
FaultSteps ==
    {"s_has_table", "s_ddl", "s_insert", "s_commit", "s_refresh", "s_created",
     "s_select", "s_got", "s_select_all", "s_listed"}

\* What a failing step raises: model_validate a ValidationError, the database
\* an OperationalError (disk I/O error, database is locked, ...).
ErrorAt(p) ==
    IF p \in {"s_created", "s_got", "s_listed"} THEN "ValidationError"
    ELSE "OperationalError"

\* SqlFault without the "async with" around the session: the error leaves
\* create_user, get_user or list_users with the session and its transaction
\* still open.
SqlFault_Leak(t) ==
    /\ faults < MaxFaults
    /\ pc[t] \in FaultSteps
    /\ At(t, pc[t])
    /\ faults' = faults + 1
    /\ pc[t] = "s_got" => local[t].row # NoRow
    /\ pc[t] = "s_listed" => local[t].found # <<>>
    /\ res' = [res EXCEPT ![t] = Raised(@, ErrorAt(pc[t]), pc[t])]
    /\ pc' = [pc EXCEPT ![t] = "done"]
    /\ local' = [local EXCEPT ![t] = Gone(@)]
    /\ UNCHANGED <<kind, facVars, fsVars, live, clock, memVars, sqlVars, call, returned>>

\* A step of an operation fails.  The error leaves the "async with" blocks on
\* its way to the caller: the session closes, and closing it rolls back what
\* was not committed, which frees the write lock.  No step is tried again.
SqlFault(t) ==
    /\ faults < MaxFaults
    /\ pc[t] \in FaultSteps
    /\ At(t, pc[t])
    /\ faults' = faults + 1
    /\ pc[t] = "s_got" => local[t].row # NoRow
    /\ pc[t] = "s_listed" => local[t].found # <<>>
    /\ res' = [res EXCEPT ![t] = Raised(@, ErrorAt(pc[t]), pc[t])]
    /\ pc' = [pc EXCEPT ![t] = "done"]
    /\ sessions' = sessions \ {t}
    /\ writer' = IF writer = t THEN "none" ELSE writer
    /\ local' = [local EXCEPT ![t] = Gone(@)]
    /\ UNCHANGED <<kind, facVars, fsVars, live, clock, memVars, initialized, table, rows,
                   initRuns, call, returned>>

Next ==
    \/ Startup
    \/ Restart
    \/ \E t \in Tasks : Call(t)
    \/ \E t \in Tasks : Return(t)
    \/ \E t \in Tasks : MemAcquire(t)
    \/ \E t \in Tasks : MemConstruct(t)
    \/ \E t \in Tasks : MemStore(t)
    \/ \E t \in Tasks : MemIncr(t)
    \/ \E t \in Tasks : MemReturn(t)
    \/ \E t \in Tasks : MemGet(t)
    \/ \E t \in Tasks : MemList(t)
    \/ \E t \in Tasks : SqlInitCheck(t)
    \/ \E t \in Tasks : SqlHasTable(t)
    \/ \E t \in Tasks : SqlCreateAll(t)
    \/ \E t \in Tasks : SqlSetFlag(t)
    \/ \E t \in Tasks : SqlInsert(t)
    \/ \E t \in Tasks : SqlCommit(t)
    \/ \E t \in Tasks : SqlRefresh(t)
    \/ \E t \in Tasks : SqlCreated(t)
    \/ \E t \in Tasks : SqlSelect(t)
    \/ \E t \in Tasks : SqlGot(t)
    \/ \E t \in Tasks : SqlSelectAll(t)
    \/ \E t \in Tasks : SqlListed(t)

Spec == Init /\ [][Next]_vars

\* The program with storage failures: any step of a SQLite operation may fail.
FaultNext ==
    \/ Next
    \/ \E t \in Tasks : SqlFault(t)

FaultSpec == Init /\ [][FaultNext]_vars

\* Sequential use: a caller awaits each operation before it starts the next,
\* so at most one operation is in flight.
Sequential == Cardinality({t \in Tasks : pc[t] # "idle"}) <= 1

SeqNext ==
    \/ Startup /\ Sequential'
    \/ Restart /\ Sequential'
    \/ \E t \in Tasks : Call(t) /\ Sequential'
    \/ \E t \in Tasks : Return(t) /\ Sequential'
    \/ \E t \in Tasks : MemAcquire(t) /\ Sequential'
    \/ \E t \in Tasks : MemConstruct(t) /\ Sequential'
    \/ \E t \in Tasks : MemStore(t) /\ Sequential'
    \/ \E t \in Tasks : MemIncr(t) /\ Sequential'
    \/ \E t \in Tasks : MemReturn(t) /\ Sequential'
    \/ \E t \in Tasks : MemGet(t) /\ Sequential'
    \/ \E t \in Tasks : MemList(t) /\ Sequential'
    \/ \E t \in Tasks : SqlInitCheck(t) /\ Sequential'
    \/ \E t \in Tasks : SqlHasTable(t) /\ Sequential'
    \/ \E t \in Tasks : SqlCreateAll(t) /\ Sequential'
    \/ \E t \in Tasks : SqlSetFlag(t) /\ Sequential'
    \/ \E t \in Tasks : SqlInsert(t) /\ Sequential'
    \/ \E t \in Tasks : SqlCommit(t) /\ Sequential'
    \/ \E t \in Tasks : SqlRefresh(t) /\ Sequential'
    \/ \E t \in Tasks : SqlCreated(t) /\ Sequential'
    \/ \E t \in Tasks : SqlSelect(t) /\ Sequential'
    \/ \E t \in Tasks : SqlGot(t) /\ Sequential'
    \/ \E t \in Tasks : SqlSelectAll(t) /\ Sequential'
    \/ \E t \in Tasks : SqlListed(t) /\ Sequential'

SeqSpec == Init /\ [][SeqNext]_vars

\* ------------------------------------------------------------- vocabulary

Range(f) == {f[i] : i \in DOMAIN f}

Done(t, op) == pc[t] = "done" /\ call[t].op = op

\* The instances that share instance r's store.
StoreRepos(r) == IF kind = "memory" THEN {r} ELSE Repos

\* The Users create_user has returned on r's store.
ReturnedUsers(r) == UNION {Range(returned[q]) : q \in StoreRepos(r)}

\* The Users that creations in flight on r's store have stored and will return.
StoredInFlight(r) ==
    {local[t].user : t \in {o \in Tasks : /\ call[o].repo \in StoreRepos(r)
                                           /\ pc[o] \in {"m_incr", "m_return"}}}
    \cup
    {model_validate(local[t].row) :
        t \in {o \in Tasks : /\ call[o].repo \in StoreRepos(r)
                             /\ pc[o] \in {"s_refresh", "s_created"}}}

\* The ids that creations in flight on r's store hold and have not stored yet.
AssignedInFlight(r) ==
    {local[t].user.id : t \in {o \in Tasks : /\ call[o].repo \in StoreRepos(r)
                                              /\ pc[o] = "m_store"}}
    \cup
    {local[t].row[1] : t \in {o \in Tasks : /\ call[o].repo \in StoreRepos(r)
                                             /\ pc[o] = "s_commit"}}

\* Every User of r's store that a read may meet, and every id given out on it.
KnownUsers(r) == ReturnedUsers(r) \cup StoredInFlight(r)
ProducedIds(r) == {u.id : u \in KnownUsers(r)} \cup AssignedInFlight(r)

\* The User that create_user returned with this id on r's store.
ReturnedAs(r, id) == CHOOSE u \in ReturnedUsers(r) : u.id = id

\* The ids that instance r itself has returned.
OwnIds(r) == {u.id : u \in Range(returned[r])}

\* The tasks inside the schema creation of instance r.
CreatingSchema(r) ==
    {t \in Tasks : call[t].repo = r /\ pc[t] \in {"s_has_table", "s_ddl", "s_flag"}}

\* The tasks of an operation on r that are past _init_db.
PastInit(r) ==
    {t \in Tasks : /\ call[t].repo = r
                   /\ pc[t] \in {"s_insert", "s_commit", "s_refresh", "s_created",
                                 "s_select", "s_got", "s_select_all", "s_listed"}}

\* ------------------------------------------------------------------ claims

\* C1: on one in-memory instance the k-th create_user to complete returns id k,
\* so the ids returned are pairwise distinct, strictly increasing in completion
\* order, and start at 1.
C1_KthCreateReturnsK ==
    kind = "memory" =>
        \A r \in Repos : \A k \in DOMAIN returned[r] : returned[r][k].id = k

\* C1 witness: three creations have completed on one in-memory instance.
C1_ThreeCreated ==
    /\ kind = "memory"
    /\ \E r \in Repos : Len(returned[r]) >= 3

\* C2: under every interleaving of concurrent create_user calls on one in-memory
\* instance no id is returned twice and no record is lost: the mapping holds
\* one record per completed call and one per call that has stored its record
\* and not returned yet, so exactly N records once N calls have completed.
C2_NoLostUpdateNoDuplicate ==
    kind = "memory" =>
        \A r \in Repos :
            /\ \A i, j \in DOMAIN returned[r] :
                  returned[r][i].id = returned[r][j].id => i = j
            /\ \A i, j \in DOMAIN users[r] : users[r][i].k = users[r][j].k => i = j
            /\ Len(users[r]) = Len(returned[r])
                  + Cardinality({t \in Tasks : /\ call[t].repo = r
                                               /\ pc[t] \in {"m_incr", "m_return"}})

\* C2 witness: a create_user completes its second record on an instance while
\* another create_user on the same instance is waiting for the lock.
C2_ConcurrentCreates ==
    /\ kind = "memory"
    /\ \E t, o \in Tasks :
        /\ Done(t, "create_user")
        /\ res[t].val.id = 2
        /\ pc[o] = "m_lock"
        /\ call[o].repo = call[t].repo

\* C3 (as claimed): schema creation is single-flight, at most one task of an
\* instance is between the flag check and the setting of the flag.
C3_SingleFlight ==
    \A r \in Repos : Cardinality(CreatingSchema(r)) <= 1

\* C4: in sequential use of a SQLite instance, schema creation has run exactly
\* once before any query of the instance, the operation that did not run it
\* found the flag set, and it never runs a second time.
C4_SchemaCreatedOnce ==
    kind = "sqlite" =>
        \A r \in Repos :
            /\ initRuns[r] <= 1
            /\ \A t \in Tasks :
                  (t \in PastInit(r) \/ (pc[t] = "done" /\ call[t].repo = r)) =>
                      /\ initRuns[r] = 1
                      /\ table
                      /\ initialized[r]

\* C4 witness: an operation that skipped schema creation has completed on an
\* instance whose schema creation ran once.
C4_LaterOperationSkips ==
    /\ kind = "sqlite"
    /\ \E t \in Tasks :
        /\ pc[t] = "done"
        /\ ~local[t].ran_init
        /\ initRuns[call[t].repo] = 1

\* C5: a get_user that returns a record returns one with the id asked for that
\* a create_user on the store returns, equal in every field; and a get_user
\* called after the create_user of the same instance returned the id returns
\* exactly the record that create_user returned, whatever was done in between.
C5_GetReturnsCreated ==
    \A t \in Tasks :
        Done(t, "get_user") =>
            LET r == call[t].repo
                id == call[t].user_id
            IN /\ (res[t].err = "none" /\ res[t].val # None) =>
                      (res[t].val.id = id /\ res[t].val \in KnownUsers(r))
               /\ (id \in call[t].pre /\ id \in OwnIds(r)) =>
                      (res[t].err = "none" /\ res[t].val = ReturnedAs(r, id))

\* C5 witness: get_user returns the first record of a SQLite store after a
\* second record was created.
C5_GetAfterMore ==
    /\ kind = "sqlite"
    /\ Cardinality(rows) >= 2
    /\ \E t \in Tasks :
        /\ Done(t, "get_user")
        /\ call[t].user_id = 1
        /\ 1 \in OwnIds(call[t].repo)
        /\ res[t].val.id = 1

C7_AbsentNeverRaises ==
    \A t \in Tasks :
        (Done(t, "get_user") /\ call[t].user_id \notin ProducedIds(call[t].repo)) =>
            (res[t].err = "none" /\ res[t].val = None)

\* C8 (as claimed): create_user does not fail and returns a new User with an
\* id that no other create_user has returned.
C8_CreateNeverFails ==
    \A t \in Tasks :
        Done(t, "create_user") =>
            /\ res[t].err = "none"
            /\ res[t].val # None
            /\ Cardinality({q \in StoreRepos(call[t].repo) :
                   \E i \in DOMAIN returned[q] : returned[q][i].id = res[t].val.id}) = 1

\* C9: get_user and list_users of the SQLite instance constructed afterwards on
\* the same location raise nothing and return, equal in every field, each
\* record that an earlier instance created; and no schema creation removes a
\* row: every record ever returned is still a row of the table.
C9_DurableAcrossInstances ==
    kind = "sqlite" =>
        /\ \A q \in Repos : \A u \in Range(returned[q]) :
              <<u.id, u.username, u.email, u.created_at>> \in rows
        /\ \A t \in Tasks :
              LET r == call[t].repo
                  others == (call[t].pre \ OwnIds(r))
              IN /\ (Done(t, "get_user") /\ call[t].user_id \in others) =>
                        /\ res[t].err = "none"
                        /\ res[t].val = ReturnedAs(r, call[t].user_id)
                 /\ (Done(t, "list_users") /\ others # {}) =>
                        /\ res[t].err = "none"
                        /\ \A id \in others : ReturnedAs(r, id) \in Range(res[t].vals)

\* C9 witness: the first operation of the new instance, which ran the
\* instance's own schema creation, is a get_user that returns a record the
\* earlier instance created.
C9_NewInstanceReads ==
    /\ kind = "sqlite"
    /\ \E t \in Tasks :
        /\ Done(t, "get_user")
        /\ call[t].repo = "r2"
        /\ local[t].ran_init
        /\ res[t].val # None
        /\ res[t].val \in Range(returned["r1"])

\* C10: the mapping and the next-id counter of an in-memory instance change
\* only in a step of a create_user on that instance; no operation on another
\* instance touches them.
C10_InstancesApart ==
    [][kind = "memory" =>
        \A r \in Repos :
            (users'[r] # users[r] \/ next_id'[r] # next_id[r]) =>
                \E t \in Tasks : /\ call[t].repo = r
                                 /\ pc[t] \in {"m_store", "m_incr"}
                                 /\ pc'[t] # pc[t]]_vars

\* C10 witness: a create_user has just stored a record in one in-memory
\* instance while the other instance holds records of its own.
C10_TwoInstancesInUse ==
    /\ kind = "memory"
    /\ \E t \in Tasks :
        /\ pc[t] = "m_incr"
        /\ \E r \in Repos \ {call[t].repo} :
              /\ users[r] # <<>>
              /\ Len(users[r]) # Len(users[call[t].repo])

\* ---------------------------------------------------------------------- C11

\* s is w in some casing: the same letters, each in either case.
AnyCasing(s, w) ==
    /\ Len(s) = Len(w)
    /\ \A i \in DOMAIN w :
        \/ s[i] = w[i]
        \/ \E j \in DOMAIN LowerCase : LowerCase[j] = w[i] /\ UpperCase[j] = s[i]

\* The name the factory is given: the argument, or without one the
\* environment's REPO_TYPE, or without that "memory".
GivenName == IF repo_type = NoneArg THEN getenv(env) ELSE repo_type

\* C11: create_user_repository selects case-insensitively: any casing of
\* "memory" gives the in-memory variant, any casing of "sqlite" the SQLite
\* variant, and every other name raises an error that names the value as it
\* was given and the accepted names, and constructs no repository.
C11_SelectsOrNamesGiven ==
    [][kind = "none" /\ error = NoError /\ (kind' # "none" \/ error' # NoError)
       => /\ AnyCasing(GivenName, memory) => kind' = "memory" /\ error' = NoError
          /\ AnyCasing(GivenName, sqlite) => kind' = "sqlite" /\ error' = NoError
          /\ ~AnyCasing(GivenName, memory) /\ ~AnyCasing(GivenName, sqlite)
             => /\ kind' = "none"
                /\ error'.value = GivenName
                /\ error'.accepted = {memory, sqlite}]_vars

\* ---------------------------------------------------------------------- C12

\* The steps inside the "async with self.session_maker() as session" block.
SessionSteps ==
    {"s_insert", "s_commit", "s_refresh", "s_created", "s_select", "s_got",
     "s_select_all", "s_listed"}

\* C12: every SQLite operation releases the session it opened on every way out,
\* the normal return and an error at insert, commit, refresh, query or row
\* mapping alike: a task that has returned or raised holds no session and no
\* write lock, the step that ends an operation closes that operation's session
\* and no other, a session is open only inside its block, and an insert that
\* failed before its commit leaves the stored rows as they were.
C12_SessionReleased ==
    [][\A t \in Tasks :
        /\ pc'[t] \in {"idle", "done"} => t \notin sessions' /\ writer' # t
        /\ t \in sessions' => pc'[t] \in SessionSteps
        /\ (pc[t] \in SessionSteps /\ pc'[t] = "done")
           => t \in sessions /\ sessions' = sessions \ {t}
        /\ (pc[t] \in {"s_insert", "s_commit"} /\ pc'[t] = "done") => rows' = rows
      ]_vars

\* A create_user whose commit failed has raised, while another operation's
\* session is open.
C12_CommitFailed ==
    \E t \in Tasks :
        /\ pc[t] = "done"
        /\ res[t].at = "s_commit"
        /\ sessions # {}

\* ---------------------------------------------------------------------- C13

\* The username of task t's create_user is the username of a stored record.
UsernameStored(t) ==
    IF kind = "memory"
    THEN \E i \in DOMAIN users[call[t].repo] :
            users[call[t].repo][i].v.username = call[t].username
    ELSE \E row \in rows : row[2] = call[t].username

\* C13: only the SQLite variant enforces unique usernames.  In memory a
\* create_user with a stored username succeeds like any other, with an id no
\* stored record has; on SQLite the insert of a stored username raises, the
\* stored rows stay as they are, and no two rows ever share a username.
C13_UniqueOnlyOnSqlite ==
    [][\A t \in Tasks :
        /\ (kind = "memory" /\ pc[t] = "m_return" /\ pc'[t] = "done")
           => /\ res'[t].err = "none"
              /\ \A i \in DOMAIN returned[call[t].repo] :
                    returned[call[t].repo][i].id # res'[t].val.id
        /\ (kind = "sqlite" /\ pc[t] = "s_insert" /\ pc'[t] # "s_insert"
            /\ UsernameStored(t))
           => /\ pc'[t] = "done"
              /\ res'[t].err # "none"
              /\ rows' = rows
        /\ kind = "sqlite"
           => \A r1 \in rows', r2 \in rows' : r1[2] = r2[2] => r1 = r2
      ]_vars

\* A create_user on SQLite has raised over a username that is stored.
C13_DuplicateRefused ==
    \E t \in Tasks :
        /\ kind = "sqlite"
        /\ pc[t] = "done"
        /\ call[t].op = "create_user"
        /\ res[t].err = "IntegrityError"
        /\ UsernameStored(t)

\* ---------------------------------------------------------------------- C14

\* u is a whole record: a positive id, a username with its email as some
\* create_user was given them, and a creation time the clock has shown.
WholeRecord(u) ==
    /\ u.id >= 1
    /\ <<u.username, u.email>> \in Inputs
    /\ u.created_at \in 0..MaxClock

\* C14: on either variant a get_user(id) called after a create_user on the
\* store returned id returns that very record, never None and never an error;
\* and every record a list_users returns, whatever creations run beside it, is
\* a whole record equal to the one a create_user has returned or, for a
\* creation still in flight, is about to return.
C14_ReadsSeeWholeRecords ==
    \A t \in Tasks :
        LET r == call[t].repo
        IN /\ (Done(t, "get_user") /\ call[t].user_id \in call[t].pre)
              => /\ res[t].err = "none"
                 /\ res[t].val # None
                 /\ res[t].val = ReturnedAs(r, call[t].user_id)
           /\ (Done(t, "list_users") /\ res[t].err = "none")
              => \A i \in DOMAIN res[t].vals :
                    /\ WholeRecord(res[t].vals[i])
                    /\ res[t].vals[i] \in KnownUsers(r)

\* A list_users has returned a record whose create_user has not returned yet.
C14_ListSeesInFlight ==
    \E t \in Tasks :
        /\ Done(t, "list_users")
        /\ \E i \in DOMAIN res[t].vals :
              res[t].vals[i] \notin ReturnedUsers(call[t].repo)

\* ---------------------------------------------------------------------- C15

\* The steps of create_user inside "async with self._lock".
LockedSteps == {"m_user", "m_store", "m_incr", "m_return"}

\* The tasks inside the critical section of in-memory instance r.
InSection(r) == {t \in Tasks : call[t].repo = r /\ pc[t] \in LockedSteps}

\* Task t runs an in-memory get_user or list_users in this step.
MemReads(t) ==
    /\ kind = "memory"
    /\ pc[t] = "idle"
    /\ pc'[t] = "done"
    /\ call'[t].op \in {"get_user", "list_users"}

\* C15 (as claimed): with tasks switched between any two statements, as the
\* threads of a worker pool are, at most one create_user is inside the
\* critical section of an instance, and no get_user or list_users runs on an
\* instance in a state where the record with id n is in the mapping while the
\* counter still is n.
C15_SectionAtomic ==
    [][/\ \A r \in Repos : Cardinality(InSection(r)) <= 1
       /\ \A t \in Tasks :
            MemReads(t) => ~DictHas(users[call'[t].repo], next_id[call'[t].repo])
      ]_vars

\* Cooperative scheduling: the event loop switches tasks at awaits only, and
\* create_user has none between taking the lock and returning, so while a
\* task is inside the critical section every step is that task's.
LoopNext ==
    Next /\ \A t \in Tasks : pc[t] \in LockedSteps => pc'[t] # pc[t]

LoopSpec == Init /\ [][LoopNext]_vars

\* ---------------------------------------------------------------------- C16

\* The steps of _init_db's schema creation.
SchemaSteps == {"s_has_table", "s_ddl", "s_flag"}

\* C16: when schema creation fails in an operation, be it a storage failure or
\* a CREATE TABLE the database refuses, the operation ends there with the
\* database's error: it has opened no session and opens none, changes no row,
\* begins no second schema creation, and leaves the flag as it was, which is
\* unset when no other operation has run schema creation on the instance; and
\* an operation that finds the flag unset runs schema creation (again).
C16_FailedCreationNotSticky ==
    [][\A t \in Tasks :
        LET r == call[t].repo
        IN /\ (pc[t] \in SchemaSteps /\ pc'[t] = "done")
              => /\ res'[t].err = "OperationalError"
                 /\ res'[t].at = pc[t]
                 /\ t \notin sessions
                 /\ sessions' = sessions
                 /\ rows' = rows
                 /\ writer' = writer
                 /\ initRuns' = initRuns
                 /\ initialized' = initialized
                 /\ initRuns[r] = 1 => ~initialized'[r]
           /\ (pc[t] = "s_init" /\ pc'[t] # "s_init" /\ ~initialized[r])
              => pc'[t] = "s_has_table"
           /\ pc'[t] \in SchemaSteps => t \notin sessions'
      ]_vars

\* The only schema creation begun on an instance has failed: its operation
\* has raised, and the flag is unset.
C16_CreationFailed ==
    \E t \in Tasks :
        /\ pc[t] = "done"
        /\ res[t].err = "OperationalError"
        /\ res[t].at \in SchemaSteps
        /\ initRuns[call[t].repo] = 1
        /\ ~initialized[call[t].repo]

\* ---------------------------------------------------------------------- C17

\* Task t takes a step of a get_user or list_users.
ReadStep(t) ==
    /\ pc'[t] # pc[t]
    /\ call'[t].op \in {"get_user", "list_users"}

\* Task t takes the step of create_user that stores the record.
StoreStep(t) ==
    /\ pc[t] \in {"m_store", "s_commit"}
    /\ pc'[t] # pc[t]

\* C17: the store of either variant only grows.  Every step keeps every
\* stored record as it is and in its place, and adds at most one; the step
\* that adds one is a create_user's; a step of get_user or list_users changes
\* neither the records nor the in-memory counter, which never goes down; and
\* the record a create_user returns is in the store as returned.
C17_AppendOnly ==
    [][/\ \A r \in Repos :
            /\ Len(users[r]) <= Len(users'[r])
            /\ Len(users'[r]) <= Len(users[r]) + 1
            /\ \A i \in DOMAIN users[r] : users'[r][i] = users[r][i]
            /\ next_id'[r] \in {next_id[r], next_id[r] + 1}
       /\ rows \subseteq rows'
       /\ Cardinality(rows') <= Cardinality(rows) + 1
       /\ (users' # users \/ rows' # rows) => \E t \in Tasks : StoreStep(t)
       /\ \A t \in Tasks :
            /\ ReadStep(t) => users' = users /\ next_id' = next_id /\ rows' = rows
            /\ (pc'[t] = "done" /\ call'[t].op = "create_user"
                /\ res'[t].err = "none")
               => IF kind = "memory"
                  THEN DictGet(users'[call'[t].repo], res'[t].val.id) = res'[t].val
                  ELSE \E row \in rows' : model_validate(row) = res'[t].val
      ]_vars

\* A create_user has added a second record to a store, and the first is in it.
C17_SecondAdded ==
    \E t \in Tasks :
        /\ Done(t, "create_user")
        /\ res[t].err = "none"
        /\ res[t].val.id = 2
        /\ IF kind = "memory"
           THEN Len(users[call[t].repo]) = 2
           ELSE Cardinality(rows) = 2

\* ---------------------------------------------------------------------- C18

\* C18: between operations, that is whenever no create_user is inside the
\* critical section of an in-memory instance, the instance's keys are exactly
\* 1 .. _next_id - 1, every record sits under the key that is its id, and
\* _next_id is the number of records plus one.
C18_KeysAreOneToN ==
    \A r \in Repos :
        (kind = "memory" /\ InSection(r) = {})
        => /\ {users[r][i].k : i \in DOMAIN users[r]} = 1..(next_id[r] - 1)
           /\ \A i \in DOMAIN users[r] : users[r][i].v.id = users[r][i].k
           /\ next_id[r] = Len(users[r]) + 1

\* An in-memory instance at rest that holds two records or more.
C18_SeveralAtRest ==
    \E r \in Repos :
        /\ kind = "memory"
        /\ InSection(r) = {}
        /\ \A t \in Tasks : pc[t] = "idle"
        /\ Len(users[r]) >= 2

\* ------------------------------------------------- script.py FileStore, run

\* The files a FileStore may find: none, or what a FileStore wrote earlier.
InitialFiles ==
    {NoFile, json_dump(<<>>)}
    \cup {json_dump(<<[k |-> k, v |-> v]>>) : k \in Keys, v \in Values}

\* The call just made and what it returned.
Out(op, key, flag, val, all) ==
    [op |-> op, key |-> key, flag |-> flag, val |-> val, all |-> all]

\* FileStore.__init__: _data starts empty and _load reads the file.  The first
\* instance, on a file that may exist.
StoreInit ==
    /\ file \in InitialFiles
    /\ data = load(file)
    /\ out = Out("init", <<>>, FALSE, NoneArg, <<>>)
    /\ kind = "none"
    /\ repo_type = NoneArg
    /\ env = Unset
    /\ error = NoError
    /\ live = "r1"
    /\ clock = 0
    /\ users = [r \in Repos |-> <<>>]
    /\ next_id = [r \in Repos |-> 1]
    /\ lock = [r \in Repos |-> FALSE]
    /\ initialized = [r \in Repos |-> FALSE]
    /\ table = FALSE
    /\ rows = {}
    /\ writer = "none"
    /\ sessions = {}
    /\ faults = 0
    /\ pc = [t \in Tasks |-> "idle"]
    /\ call = [t \in Tasks |-> NoCall]
    /\ local = [t \in Tasks |-> NoLocal]
    /\ res = [t \in Tasks |-> NoRes]
    /\ returned = [r \in Repos |-> <<>>]
    /\ initRuns = [r \in Repos |-> 0]

\* What the FileStore leaves alone: everything of the repositories.
repoVars ==
    <<kind, live, clock, memVars, sqlVars, faults, pc, call, local, res, returned,
      facVars>>

\* _save_to_file: the file is opened for writing and json.dump writes _data.
save_to_file(d) == json_dump(d)

\* FileStore.delete without _save_to_file: only the mapping in memory changes.
FileDelete_Unsaved(key) ==
    /\ data' = DictDel(data, key)
    /\ out' = Out("delete", key, DictHas(data, key), NoneArg, <<>>)
    /\ UNCHANGED <<file, repoVars>>

\* FileStore.save(key, value).
FileSave(key, value) ==
    /\ data' = DictSet(data, key, value)
    /\ file' = save_to_file(data')
    /\ out' = Out("save", key, FALSE, NoneArg, <<>>)
    /\ UNCHANGED repoVars

\* FileStore.get(key).
FileGet(key) ==
    /\ out' = Out("get", key, FALSE, StrGet(data, key), <<>>)
    /\ UNCHANGED <<file, data, repoVars>>

\* FileStore.delete(key): a key that is there is deleted, the file written and
\* True returned; else False.
FileDelete(key) ==
    /\ IF DictHas(data, key)
       THEN /\ data' = DictDel(data, key)
            /\ file' = save_to_file(data')
            /\ out' = Out("delete", key, TRUE, NoneArg, <<>>)
       ELSE /\ out' = Out("delete", key, FALSE, NoneArg, <<>>)
            /\ UNCHANGED <<file, data>>
    /\ UNCHANGED repoVars

\* FileStore.list_all(): a copy of _data.
FileListAll ==
    /\ out' = Out("list_all", <<>>, FALSE, NoneArg, data)
    /\ UNCHANGED <<file, data, repoVars>>

\* A new FileStore is constructed on the same file and takes the place of the
\* one before.
FileStoreNew ==
    /\ data' = load(file)
    /\ out' = Out("init", <<>>, FALSE, NoneArg, <<>>)
    /\ UNCHANGED <<file, repoVars>>

StoreNext ==
    \/ \E key \in Keys, value \in Values : FileSave(key, value)
    \/ \E key \in Keys : FileGet(key)
    \/ \E key \in Keys : FileDelete(key)
    \/ FileListAll
    \/ FileStoreNew

StoreSpec == StoreInit /\ [][StoreNext]_vars

\* ---------------------------------------------------------------------- C19

\* C19: after every save, and every delete that finds its key, the file
\* exists and reads back as exactly the mapping the instance holds; a new
\* FileStore on the file holds, and list_all returns, the mapping the instance
\* before it held; delete(key) returns True exactly when the key was there,
\* and after it get(key) finds nothing.
C19_FileHoldsMapping ==
    [][/\ out'.op = "save"
          => /\ file' # NoFile
             /\ json_load(file') = data'
             /\ StrGet(data', out'.key) # NoneArg
       /\ out'.op = "delete"
          => /\ out'.flag = DictHas(data, out'.key)
             /\ StrGet(data', out'.key) = NoneArg
             /\ out'.flag => file' # NoFile /\ json_load(file') = data'
       /\ data' # data => file' # NoFile /\ json_load(file') = data'
       /\ out'.op = "init" => data' = data
       /\ out'.op = "list_all" => out'.all = data
       /\ out'.op = "get" => out'.val = StrGet(data, out'.key)
      ]_vars

\* A delete has returned True and left the mapping, still holding a record
\* whose key and value need escaping, in the file.
C19_DeletedAndSaved ==
    /\ out.op = "delete"
    /\ out.flag
    /\ \E i \in DOMAIN data : data[i].k = <<"\"">> /\ data[i].v = <<"\\", "\"">>
    /\ file = json_dump(data)

=============================================================================
